---- MODULE Spec2Model ----
(***************************************************************************)
(* Model of the lead-capture submission workflow of                        *)
(* src/components/LeadCaptureForm.tsx: the form component's state, the     *)
(* session lead store it writes, and the two gateway calls (insert into    *)
(* 'leads', invoke 'send-confirmation') each handleSubmit run awaits.      *)
(*                                                                         *)
(* Strings are sequences of one-character strings, so that trim() and the  *)
(* email pattern are computed on the characters.                           *)
(***************************************************************************)
EXTENDS Integers, Sequences, FiniteSets, TLC

(* ---------------------------- bounds ----------------------------------- *)
\* number of submit actions (handleSubmit runs) in one behaviour
MaxSubs == 2

(* ------------------------- input alphabets ----------------------------- *)
EmptyStr == <<>>

\* values typed into the name field
NameValues == { EmptyStr, <<" ">>, <<"A">> }

\* values typed into the email field
EmailValues == { EmptyStr, <<"a", "@", "b">>, <<"a", "@", "b", ".", "c">> }

\* values of the industry Select (one of the eight SelectItem values; the
\* Select has no empty item)
IndustryValues == { <<"t", "e", "c", "h">> }

Fields == { "name", "email", "industry" }

FieldValues(field) ==
    CASE field = "name" -> NameValues
      [] field = "email" -> EmailValues
      [] field = "industry" -> IndustryValues

\* useState({ name: '', email: '', industry: '' })
EmptyForm == [name |-> EmptyStr, email |-> EmptyStr, industry |-> EmptyStr]

(* ----------------------------- validator ------------------------------- *)
IsSpace(c) == c = " "

RECURSIVE TrimLeft(_)
TrimLeft(s) ==
    IF s = <<>> THEN <<>>
    ELSE IF IsSpace(Head(s)) THEN TrimLeft(Tail(s)) ELSE s

RECURSIVE TrimRight(_)
TrimRight(s) ==
    IF s = <<>> THEN <<>>
    ELSE IF IsSpace(s[Len(s)]) THEN TrimRight(SubSeq(s, 1, Len(s) - 1)) ELSE s

\* String.prototype.trim
Trim(s) == TrimRight(TrimLeft(s))

\* /^[^\s@]+@[^\s@]+\.[^\s@]+$/ : no whitespace, exactly one "@" with a
\* character before it, and a "." after it with a character on both sides
IsEmailShape(s) ==
    /\ \A k \in 1..Len(s) : ~IsSpace(s[k])
    /\ Cardinality({k \in 1..Len(s) : s[k] = "@"}) = 1
    /\ \E i \in 2..Len(s) :
          /\ s[i] = "@"
          /\ \E j \in (i + 2)..(Len(s) - 1) : s[j] = "."

NameErrors(data) ==
    IF Trim(data.name) = EmptyStr
    THEN << [field |-> "name", message |-> "Name is required"] >>
    ELSE << >>

EmailErrors(data) ==
    IF Trim(data.email) = EmptyStr
    THEN << [field |-> "email", message |-> "Email is required"] >>
    ELSE IF ~IsEmailShape(data.email)
         THEN << [field |-> "email", message |-> "Please enter a valid email address"] >>
         ELSE << >>

IndustryErrors(data) ==
    IF Trim(data.industry) = EmptyStr
    THEN << [field |-> "industry", message |-> "Please select your industry"] >>
    ELSE << >>

\* validateLeadForm: errors in field declaration order
validateLeadForm(data) == NameErrors(data) \o EmailErrors(data) \o IndustryErrors(data)

RECURSIVE FilterOut(_, _)
\* prev.filter(error => error.field !== field)
FilterOut(errs, field) ==
    IF errs = <<>> THEN <<>>
    ELSE IF Head(errs).field = field
         THEN FilterOut(Tail(errs), field)
         ELSE <<Head(errs)>> \o FilterOut(Tail(errs), field)

\* validationErrors.some(error => error.field === field)
HasFieldError(errs, field) == \E k \in 1..Len(errs) : errs[k].field = field

\* getFieldError: the message of the first error of the field, if any
getFieldError(errs, field) ==
    IF HasFieldError(errs, field)
    THEN errs[CHOOSE k \in 1..Len(errs) :
                 /\ errs[k].field = field
                 /\ \A m \in 1..(k - 1) : errs[m].field # field].message
    ELSE "undefined"

(* ------------------------------- state --------------------------------- *)
VARIABLES
    formData,          \* useState formData of the mounted component instance
    validationErrors,  \* useState validationErrors of the mounted instance
    mounted,           \* whether a LeadCaptureForm instance is mounted
    submitted,         \* lead store: the "just submitted" flag
    sessionLeads,      \* lead store: ordered sequence of leads
    leadOrigin,        \* for each lead of the store, the run that added it
    nsub,              \* number of handleSubmit runs started so far
    subs,              \* the handleSubmit runs: position, closure, outcomes
    insertCalls,       \* insert calls issued to the persistence gateway
    invokeCalls,       \* invoke calls issued to the notification gateway
    dbPending,         \* runs whose insert call is in flight
    fnPending,         \* runs whose invoke call is in flight
    alerts,            \* runs that raised the blocking alert
    consoleErrors,     \* console.error lines, as <<run, kind>>
    uncaught           \* runs whose exception escaped handleSubmit

vars == << formData, validationErrors, mounted, submitted, sessionLeads,
           leadOrigin, nsub, subs, insertCalls, invokeCalls, dbPending,
           fnPending, alerts, consoleErrors, uncaught >>

\* the variables no step of the component itself (mount, unmount, edit) writes
gatewayVars == << insertCalls, invokeCalls, dbPending, fnPending >>
logVars == << alerts, consoleErrors, uncaught >>

SubIds == 1..MaxSubs

\* a handleSubmit run that has not started
NoSub == [ pc |-> "Idle", valid |-> FALSE, data |-> EmptyForm, alive |-> FALSE,
           dbResult |-> "none", fnResult |-> "none",
           leadsAtSubmit |-> <<>> ]

\* a run that has returned: its closure (formData, the instance's setters)
\* is dropped, its outcome is kept
Ended(i, pc, dbResult, fnResult) ==
    [ NoSub EXCEPT !.pc = pc, !.valid = subs[i].valid,
                   !.dbResult = dbResult, !.fnResult = fnResult ]

Init ==
    /\ formData = EmptyForm
    /\ validationErrors = <<>>
    /\ mounted = FALSE
    /\ submitted = FALSE
    /\ sessionLeads = <<>>
    /\ leadOrigin = <<>>
    /\ nsub = 0
    /\ subs = [i \in SubIds |-> NoSub]
    /\ insertCalls = <<>>
    /\ invokeCalls = <<>>
    /\ dbPending = {}
    /\ fnPending = {}
    /\ alerts = {}
    /\ consoleErrors = {}
    /\ uncaught = {}

(* ---------------------------- the lead store --------------------------- *)
\* addLead that drops a lead whose email the store already holds
addLeadDedup(leads, lead) ==
    IF \E k \in DOMAIN leads : leads[k].email = lead.email
    THEN leads
    ELSE Append(leads, lead)

\* addLead(lead): append to the ordered sequence, no dedup
addLead(leads, lead) == Append(leads, lead)

\* setSubmitted(value): set the shared flag
setSubmitted(value) == value

(* --------------------------- the component ----------------------------- *)
\* Mount without the mount effect of lines 15-17
MountNoEffect ==
    /\ ~mounted
    /\ mounted' = TRUE
    /\ formData' = EmptyForm
    /\ validationErrors' = <<>>
    /\ UNCHANGED << submitted, sessionLeads, leadOrigin, nsub, subs,
                    gatewayVars, logVars >>

\* mounting creates a fresh instance (useState initial values) and runs the
\* mount effect, setSubmitted(false)
Mount ==
    /\ ~mounted
    /\ mounted' = TRUE
    /\ formData' = EmptyForm
    /\ validationErrors' = <<>>
    /\ submitted' = setSubmitted(FALSE)
    /\ UNCHANGED << sessionLeads, leadOrigin, nsub, subs, gatewayVars, logVars >>

\* the user navigates away: the instance and its useState cells are gone;
\* runs of handleSubmit that await a gateway call stay pending, their
\* handler now belongs to an unmounted instance
Unmount ==
    /\ mounted
    /\ mounted' = FALSE
    /\ formData' = EmptyForm
    /\ validationErrors' = <<>>
    /\ subs' = [i \in SubIds |-> [ subs[i] EXCEPT !.alive = FALSE ]]
    /\ UNCHANGED << submitted, sessionLeads, leadOrigin, nsub, gatewayVars,
                    logVars >>

\* handleInputChange that clears the whole error list
handleInputChangeClearsAll(field, value) ==
    /\ mounted
    /\ value # formData[field]
    /\ formData' = [formData EXCEPT ![field] = value]
    /\ validationErrors' =
          IF HasFieldError(validationErrors, field)
          THEN <<>>
          ELSE validationErrors
    /\ UNCHANGED << mounted, submitted, sessionLeads, leadOrigin, nsub, subs,
                    gatewayVars, logVars >>

handleInputChange(field, value) ==
    /\ mounted
    /\ value # formData[field]
    /\ formData' = [formData EXCEPT ![field] = value]
    /\ validationErrors' =
          IF HasFieldError(validationErrors, field)
          THEN FilterOut(validationErrors, field)
          ELSE validationErrors
    /\ UNCHANGED << mounted, submitted, sessionLeads, leadOrigin, nsub, subs,
                    gatewayVars, logVars >>

(* ----------------------------- handleSubmit ---------------------------- *)
\* new Date() is read twice by a run that commits: for the row (line 36) and
\* for the lead (line 73). FirstRead(i) is the instant of run i's first
\* read; the second read returns that instant again or a later one.
FirstRead(i) == [run |-> i, later |-> FALSE]
SecondReads(i) == { [run |-> i, later |-> b] : b \in BOOLEAN }

\* the row of the insert call, built from the closure's formData
InsertRow(data, t) ==
    [ name |-> data.name, email |-> data.email, industry |-> data.industry,
      submitted_at |-> t ]

\* the body of the invoke call
InvokeBody(data) ==
    [ name |-> data.name, email |-> data.email, industry |-> data.industry ]

\* the lead handed to addLead
NewLead(data, t) ==
    [ name |-> data.name, email |-> data.email, industry |-> data.industry,
      submitted_at |-> t ]

\* setFormData of a run acts on the instance that rendered the handler; it
\* does nothing once that instance is unmounted
InstanceAlive(i) == subs[i].alive

\* Submit with the invoke call issued together with the insert call
SubmitParallel ==
    /\ mounted
    /\ nsub < MaxSubs
    /\ LET i == nsub + 1
           errors == validateLeadForm(formData)
       IN  /\ nsub' = i
           /\ validationErrors' = errors
           /\ IF errors = <<>>
              THEN /\ subs' = [subs EXCEPT ![i] =
                          [ @ EXCEPT !.pc = "Persisting", !.valid = TRUE,
                                     !.data = formData, !.alive = TRUE,
                                     !.leadsAtSubmit = sessionLeads ]]
                   /\ insertCalls' = Append(insertCalls,
                          [sub |-> i, row |-> InsertRow(formData, FirstRead(i))])
                   /\ dbPending' = dbPending \cup { i }
                   /\ invokeCalls' = Append(invokeCalls,
                          [sub |-> i, body |-> InvokeBody(formData)])
                   /\ fnPending' = fnPending \cup { i }
              ELSE /\ subs' = [subs EXCEPT ![i] =
                          [ @ EXCEPT !.pc = "ValidationFailed" ]]
                   /\ UNCHANGED << insertCalls, dbPending, invokeCalls,
                                   fnPending >>
    /\ UNCHANGED << formData, mounted, submitted, sessionLeads, leadOrigin,
                    logVars >>

\* Submit without the errors.length === 0 test
SubmitNoValidationCheck ==
    /\ mounted
    /\ nsub < MaxSubs
    /\ LET i == nsub + 1
           errors == validateLeadForm(formData)
       IN  /\ nsub' = i
           /\ validationErrors' = errors
           /\      /\ subs' = [subs EXCEPT ![i] =
                          [ @ EXCEPT !.pc = "Persisting",
                                     !.valid = (errors = <<>>),
                                     !.data = formData, !.alive = TRUE,
                                     !.leadsAtSubmit = sessionLeads ]]
                   /\ insertCalls' = Append(insertCalls,
                          [sub |-> i, row |-> InsertRow(formData, FirstRead(i))])
                   /\ dbPending' = dbPending \cup { i }
    /\ UNCHANGED << formData, mounted, submitted, sessionLeads, leadOrigin,
                    invokeCalls, fnPending, logVars >>

\* lines 21-39: validate, record the errors and, when there are none, issue
\* the insert call and suspend on it
Submit ==
    /\ mounted
    /\ nsub < MaxSubs
    /\ LET i == nsub + 1
           errors == validateLeadForm(formData)
       IN  /\ nsub' = i
           /\ validationErrors' = errors
           /\ IF errors = <<>>
              THEN /\ subs' = [subs EXCEPT ![i] =
                          [ @ EXCEPT !.pc = "Persisting", !.valid = TRUE,
                                     !.data = formData, !.alive = TRUE,
                                     !.leadsAtSubmit = sessionLeads ]]
                   /\ insertCalls' = Append(insertCalls,
                          [sub |-> i, row |-> InsertRow(formData, FirstRead(i))])
                   /\ dbPending' = dbPending \cup { i }
              ELSE /\ subs' = [subs EXCEPT ![i] =
                          [ @ EXCEPT !.pc = "ValidationFailed" ]]
                   /\ UNCHANGED << insertCalls, dbPending >>
    /\ UNCHANGED << formData, mounted, submitted, sessionLeads, leadOrigin,
                    invokeCalls, fnPending, logVars >>

\* InsertError without the return of line 44: falls through to the invoke
InsertErrorNoReturn(i) ==
    /\ subs[i].pc = "Persisting"
    /\ i \in dbPending
    /\ dbPending' = dbPending \ { i }
    /\ subs' = [subs EXCEPT ![i] = [ @ EXCEPT !.pc = "Notifying",
                                              !.dbResult = "error" ]]
    /\ consoleErrors' = consoleErrors \cup { <<i, "db">> }
    /\ alerts' = alerts \cup { i }
    /\ invokeCalls' = Append(invokeCalls,
           [sub |-> i, body |-> InvokeBody(subs[i].data)])
    /\ fnPending' = fnPending \cup { i }
    /\ UNCHANGED << formData, validationErrors, mounted, submitted,
                    sessionLeads, leadOrigin, nsub, insertCalls, uncaught >>

\* InsertError that issues the insert call again
InsertErrorRetry(i) ==
    /\ subs[i].pc = "Persisting"
    /\ i \in dbPending
    /\ subs' = [subs EXCEPT ![i] = [ @ EXCEPT !.dbResult = "error" ]]
    /\ insertCalls' = Append(insertCalls,
           [sub |-> i, row |-> InsertRow(subs[i].data, FirstRead(i))])
    /\ consoleErrors' = consoleErrors \cup { <<i, "db">> }
    /\ UNCHANGED << formData, validationErrors, mounted, submitted,
                    sessionLeads, leadOrigin, nsub, invokeCalls,
                    dbPending, fnPending, alerts, uncaught >>

\* InsertError with setSubmitted(true) moved before the dbError test
InsertErrorSetsSubmitted(i) ==
    /\ subs[i].pc = "Persisting"
    /\ i \in dbPending
    /\ dbPending' = dbPending \ { i }
    /\ subs' = [subs EXCEPT ![i] = Ended(i, "PersistFailed", "error", "none")]
    /\ consoleErrors' = consoleErrors \cup { <<i, "db">> }
    /\ alerts' = alerts \cup { i }
    /\ submitted' = setSubmitted(TRUE)
    /\ UNCHANGED << formData, validationErrors, mounted, 
                    sessionLeads, leadOrigin, nsub, insertCalls,
                    invokeCalls, fnPending, uncaught >>

\* InsertError that only logs, without the alert of line 43
InsertErrorLogOnly(i) ==
    /\ subs[i].pc = "Persisting"
    /\ i \in dbPending
    /\ dbPending' = dbPending \ { i }
    /\ subs' = [subs EXCEPT ![i] = Ended(i, "PersistFailed", "error", "none")]
    /\ consoleErrors' = consoleErrors \cup { <<i, "db">> }
    /\ UNCHANGED << formData, validationErrors, mounted, submitted,
                    sessionLeads, leadOrigin, nsub, insertCalls,
                    invokeCalls, fnPending, alerts, uncaught >>

\* InsertError that resets the form before it returns
InsertErrorResetsForm(i) ==
    /\ subs[i].pc = "Persisting"
    /\ i \in dbPending
    /\ dbPending' = dbPending \ { i }
    /\ subs' = [subs EXCEPT ![i] = Ended(i, "PersistFailed", "error", "none")]
    /\ consoleErrors' = consoleErrors \cup { <<i, "db">> }
    /\ alerts' = alerts \cup { i }
    /\ formData' = IF InstanceAlive(i) THEN EmptyForm ELSE formData
    /\ UNCHANGED << validationErrors, mounted, submitted,
                    sessionLeads, leadOrigin, nsub, insertCalls,
                    invokeCalls, fnPending, uncaught >>

\* lines 41-45: the insert resolved with an error value: log, alert, return
InsertError(i) ==
    /\ subs[i].pc = "Persisting"
    /\ i \in dbPending
    /\ dbPending' = dbPending \ { i }
    /\ subs' = [subs EXCEPT ![i] = Ended(i, "PersistFailed", "error", "none")]
    /\ consoleErrors' = consoleErrors \cup { <<i, "db">> }
    /\ alerts' = alerts \cup { i }
    /\ UNCHANGED << formData, validationErrors, mounted, submitted,
                    sessionLeads, leadOrigin, nsub, insertCalls,
                    invokeCalls, fnPending, uncaught >>

\* InsertThrows without the outer try/catch: the rejection escapes
InsertThrowsUncaught(i) ==
    /\ subs[i].pc = "Persisting"
    /\ i \in dbPending
    /\ dbPending' = dbPending \ { i }
    /\ subs' = [subs EXCEPT ![i] = Ended(i, "Unexpected", "throw", "none")]
    /\ uncaught' = uncaught \cup { i }
    /\ UNCHANGED << formData, validationErrors, mounted, submitted,
                    sessionLeads, leadOrigin, nsub, insertCalls,
                    invokeCalls, fnPending, alerts, consoleErrors >>

\* lines 78-80: the insert call threw; the outer catch logs it
InsertThrows(i) ==
    /\ subs[i].pc = "Persisting"
    /\ i \in dbPending
    /\ dbPending' = dbPending \ { i }
    /\ subs' = [subs EXCEPT ![i] = Ended(i, "Unexpected", "throw", "none")]
    /\ consoleErrors' = consoleErrors \cup { <<i, "unexpected">> }
    /\ UNCHANGED << formData, validationErrors, mounted, submitted,
                    sessionLeads, leadOrigin, nsub, insertCalls,
                    invokeCalls, fnPending, alerts, uncaught >>

\* InsertOk that builds the invoke body from the form as it is now, not
\* from the handler's closure
InsertOkCurrentForm(i) ==
    /\ subs[i].pc = "Persisting"
    /\ i \in dbPending
    /\ dbPending' = dbPending \ { i }
    /\ subs' = [subs EXCEPT ![i] = [ @ EXCEPT !.pc = "Notifying",
                                              !.dbResult = "ok" ]]
    /\ invokeCalls' = Append(invokeCalls,
           [sub |-> i, body |-> InvokeBody(formData)])
    /\ fnPending' = fnPending \cup { i }
    /\ UNCHANGED << formData, validationErrors, mounted, submitted,
                    sessionLeads, leadOrigin, nsub, insertCalls, logVars >>

\* lines 47-57: the insert resolved without error; issue the invoke call
\* and suspend on it
InsertOk(i) ==
    /\ subs[i].pc = "Persisting"
    /\ i \in dbPending
    /\ dbPending' = dbPending \ { i }
    /\ subs' = [subs EXCEPT ![i] = [ @ EXCEPT !.pc = "Notifying",
                                              !.dbResult = "ok" ]]
    /\ invokeCalls' = Append(invokeCalls,
           [sub |-> i, body |-> InvokeBody(subs[i].data)])
    /\ fnPending' = fnPending \cup { i }
    /\ UNCHANGED << formData, validationErrors, mounted, submitted,
                    sessionLeads, leadOrigin, nsub, insertCalls, logVars >>

\* outcomes of the invoke call: resolved without error, resolved with an
\* error value, or thrown
InvokeOutcomes == { "ok", "error", "throw" }

\* InvokeReturns without the inner try/catch: a throw of the invoke call
\* reaches the outer catch and the commit is skipped
InvokeReturnsNoInnerCatch(i, outcome) ==
    /\ subs[i].pc = "Notifying"
    /\ i \in fnPending
    /\ fnPending' = fnPending \ { i }
    /\ IF outcome = "throw"
       THEN /\ subs' = [subs EXCEPT ![i] =
                            Ended(i, "Unexpected", subs[i].dbResult, outcome)]
            /\ consoleErrors' = consoleErrors \cup { <<i, "unexpected">> }
            /\ UNCHANGED << sessionLeads, leadOrigin, submitted, formData >>
       ELSE /\ subs' = [subs EXCEPT ![i] =
                            Ended(i, "Committed", subs[i].dbResult, outcome)]
            /\ consoleErrors' =
                  IF outcome = "ok" THEN consoleErrors
                  ELSE consoleErrors \cup { <<i, "email">> }
            /\ \E t \in SecondReads(i) :
                  sessionLeads' = addLead(sessionLeads, NewLead(subs[i].data, t))
            /\ leadOrigin' = Append(leadOrigin, i)
            /\ submitted' = setSubmitted(TRUE)
            /\ formData' = IF InstanceAlive(i) THEN EmptyForm ELSE formData
    /\ UNCHANGED << validationErrors, mounted, nsub, insertCalls,
                    invokeCalls, dbPending, alerts, uncaught >>

\* InvokeReturns without the setFormData of line 77
InvokeReturnsNoReset(i, outcome) ==
    /\ subs[i].pc = "Notifying"
    /\ i \in fnPending
    /\ fnPending' = fnPending \ { i }
    /\ subs' = [subs EXCEPT ![i] =
                    Ended(i, "Committed", subs[i].dbResult, outcome)]
    /\ consoleErrors' =
          IF outcome = "ok" THEN consoleErrors
          ELSE consoleErrors \cup { <<i, "email">> }
    /\ \E t \in SecondReads(i) :
          sessionLeads' = addLead(sessionLeads, NewLead(subs[i].data, t))
    /\ leadOrigin' = Append(leadOrigin, i)
    /\ submitted' = setSubmitted(TRUE)
    /\ UNCHANGED << formData, validationErrors, mounted, nsub, insertCalls,
                    invokeCalls, dbPending, alerts, uncaught >>

\* InvokeReturns that builds the lead from the form as it is now, not from
\* the handler's closure
InvokeReturnsCurrentForm(i, outcome) ==
    /\ subs[i].pc = "Notifying"
    /\ i \in fnPending
    /\ fnPending' = fnPending \ { i }
    /\ subs' = [subs EXCEPT ![i] =
                    Ended(i, "Committed", subs[i].dbResult, outcome)]
    /\ consoleErrors' =
          IF outcome = "ok" THEN consoleErrors
          ELSE consoleErrors \cup { <<i, "email">> }
    /\ \E t \in SecondReads(i) :
          sessionLeads' = addLead(sessionLeads, NewLead(formData, t))
    /\ leadOrigin' = Append(leadOrigin, i)
    /\ submitted' = setSubmitted(TRUE)
    /\ formData' = IF InstanceAlive(i) THEN EmptyForm ELSE formData
    /\ UNCHANGED << validationErrors, mounted, nsub, insertCalls,
                    invokeCalls, dbPending, alerts, uncaught >>

\* lines 59-77: the invoke call settled; a failure is logged (lines 59-66),
\* then the store is updated and the form reset (lines 68-77)
InvokeReturns(i, outcome) ==
    /\ subs[i].pc = "Notifying"
    /\ i \in fnPending
    /\ fnPending' = fnPending \ { i }
    /\ subs' = [subs EXCEPT ![i] =
                    Ended(i, "Committed", subs[i].dbResult, outcome)]
    /\ consoleErrors' =
          IF outcome = "ok" THEN consoleErrors
          ELSE consoleErrors \cup { <<i, "email">> }
    /\ \E t \in SecondReads(i) :
          sessionLeads' = addLead(sessionLeads, NewLead(subs[i].data, t))
    /\ leadOrigin' = Append(leadOrigin, i)
    /\ submitted' = setSubmitted(TRUE)
    /\ formData' = IF InstanceAlive(i) THEN EmptyForm ELSE formData
    /\ UNCHANGED << validationErrors, mounted, nsub, insertCalls,
                    invokeCalls, dbPending, alerts, uncaught >>

Next ==
    \/ Mount
    \/ Unmount
    \/ \E field \in Fields : \E value \in FieldValues(field) :
          handleInputChange(field, value)
    \/ Submit
    \/ \E i \in SubIds : InsertError(i)
    \/ \E i \in SubIds : InsertThrows(i)
    \/ \E i \in SubIds : InsertOk(i)
    \/ \E i \in SubIds : \E outcome \in InvokeOutcomes : InvokeReturns(i, outcome)

Spec == Init /\ [][Next]_vars

\* every issued gateway call eventually returns or throws: the continuation
\* after each await of handleSubmit runs once its promise has settled
SpecLive ==
    /\ Spec
    /\ \A i \in SubIds :
          /\ WF_vars(InsertError(i) \/ InsertThrows(i) \/ InsertOk(i))
          /\ WF_vars(\E outcome \in InvokeOutcomes : InvokeReturns(i, outcome))

(* ------------------------- shorthands for claims ----------------------- *)
\* run i moves from position p to position q in this step
Moves(i, p, q) == subs[i].pc = p /\ subs'[i].pc = q

\* the runs that issued an invoke call / added a lead
InvokedBy == { invokeCalls[k].sub : k \in DOMAIN invokeCalls }
LeadsBy == { leadOrigin[k] : k \in DOMAIN leadOrigin }

IsPrefix(s, t) == Len(s) <= Len(t) /\ SubSeq(t, 1, Len(s)) = s

\* the instance that rendered run i's handler is gone (unmounted, or
\* replaced by a later mount)
InstanceGone(i) == ~subs[i].alive

\* run i's gateway call settles in this step
Settles(i) == subs[i].pc \in { "Persisting", "Notifying" } /\ subs'[i].pc # subs[i].pc

(* ------------------------------- claims -------------------------------- *)

\* C1: an invoke call exists only for a run whose insert has returned without
\* an error, and no run has its insert call and its invoke call in flight at
\* the same time.
C1_NotifyAfterPersist ==
    /\ \A k \in DOMAIN invokeCalls :
          /\ subs[invokeCalls[k].sub].dbResult = "ok"
          /\ invokeCalls[k].sub \notin dbPending
    /\ dbPending \cap fnPending = {}

\* C1 witness: one run awaits its invoke call while another still awaits its
\* insert call.
C1_Witness ==
    \E i, j \in SubIds : i \in fnPending /\ j \in dbPending /\ subs[i].dbResult = "ok"

\* C2 as stated: when a run halts on a persistence error it has issued no
\* invoke call, added no lead, and the store equals the store before its
\* submit.
C2_Original ==
    [][ \A i \in SubIds :
          Moves(i, "Persisting", "PersistFailed") =>
             /\ i \notin InvokedBy'
             /\ i \notin LeadsBy'
             /\ sessionLeads' = subs[i].leadsAtSubmit ]_vars

\* C2 amended: a run whose insert returned an error never issues an invoke
\* call and never adds a lead; the step that halts it leaves the store as it
\* is, and the store then holds the leads it held before the submit followed
\* only by leads of other runs.
C2_Amended ==
    /\ [](\A i \in SubIds :
            subs[i].dbResult = "error" =>
               /\ subs[i].pc = "PersistFailed"
               /\ i \notin InvokedBy
               /\ i \notin LeadsBy
               /\ i \notin fnPending)
    /\ [][ \A i \in SubIds :
             (subs[i].pc = "Persisting" /\ subs'[i].dbResult = "error") =>
                /\ sessionLeads' = sessionLeads
                /\ invokeCalls' = invokeCalls
                /\ IsPrefix(subs[i].leadsAtSubmit, sessionLeads')
                /\ i \notin LeadsBy' ]_vars

\* C2 witness: a run has halted on a persistence error after another run,
\* submitted later, had committed.
C2_Witness ==
    /\ subs[1].pc = "PersistFailed"
    /\ subs[2].pc = "Committed"
    /\ Len(sessionLeads) = 1

\* C3: when the invoke call returns an error value or throws, the same step
\* appends the run's lead, sets the submitted flag and issues no further
\* gateway call (the inserted row is not reverted).
C3_NotifyFailureCommits ==
    [][ \A i \in SubIds :
          (subs[i].pc = "Notifying" /\ subs'[i].pc # "Notifying"
              /\ subs'[i].fnResult \in { "error", "throw" }) =>
             /\ subs'[i].pc = "Committed"
             /\ Len(sessionLeads') = Len(sessionLeads) + 1
             /\ SubSeq(sessionLeads', 1, Len(sessionLeads)) = sessionLeads
             /\ InvokeBody(sessionLeads'[Len(sessionLeads')]) = InvokeBody(subs[i].data)
             /\ submitted' = TRUE
             /\ insertCalls' = insertCalls
             /\ invokeCalls' = invokeCalls
             /\ uncaught' = uncaught ]_vars

\* C3 witness: one run committed after its invoke call returned an error and
\* another after its invoke call threw.
C3_Witness ==
    \E i, j \in SubIds :
       /\ subs[i].pc = "Committed" /\ subs[i].fnResult = "error"
       /\ subs[j].pc = "Committed" /\ subs[j].fnResult = "throw"
       /\ { i, j } \subseteq LeadsBy

\* C4: every lead of the store was added by a run whose input had an empty
\* error list and whose insert returned success, and carries the input of
\* that run's insert call.
C4_LeadsValidatedAndPersisted ==
    \A k \in DOMAIN sessionLeads :
       LET i == leadOrigin[k] IN
          /\ subs[i].valid
          /\ subs[i].dbResult = "ok"
          /\ \E c \in DOMAIN insertCalls :
                /\ insertCalls[c].sub = i
                /\ validateLeadForm(InvokeBody(insertCalls[c].row)) = <<>>
                /\ InvokeBody(sessionLeads[k]) = InvokeBody(insertCalls[c].row)

\* C4 witness: the store holds a lead while other runs ended on a validation
\* failure, a persistence error or a thrown insert.
C4_Witness ==
    /\ Len(sessionLeads) >= 1
    /\ \E i \in SubIds :
          subs[i].pc \in { "ValidationFailed", "PersistFailed", "Unexpected" }

\* C5: once the instance that started a run is unmounted, the
\* settling of the run's gateway call issues no gateway call, adds no lead
\* and leaves the submitted flag alone.
C5_Claim ==
    [][ \A i \in SubIds :
          (InstanceGone(i) /\ Settles(i)) =>
             /\ invokeCalls' = invokeCalls
             /\ insertCalls' = insertCalls
             /\ sessionLeads' = sessionLeads
             /\ submitted' = submitted ]_vars

\* C6: a submit that finds a non-empty error list issues no gateway call,
\* leaves the store, the flag and the form values as they are, records the
\* validator's errors (readable per field) and leaves the run finished with
\* no call pending.
C6_ValidationFailureIsLocal ==
    [][ (nsub' = nsub + 1 /\ validateLeadForm(formData) # <<>>) =>
          /\ insertCalls' = insertCalls
          /\ invokeCalls' = invokeCalls
          /\ dbPending' = dbPending
          /\ fnPending' = fnPending
          /\ sessionLeads' = sessionLeads
          /\ submitted' = submitted
          /\ formData' = formData
          /\ validationErrors' = validateLeadForm(formData)
          /\ \A k \in DOMAIN validationErrors' :
                getFieldError(validationErrors', validationErrors'[k].field)
                   = validationErrors'[k].message
          /\ subs'[nsub'].pc = "ValidationFailed" ]_vars

\* C6 witness: a run ended on a validation failure with two fields in error.
C6_Witness ==
    /\ \E i \in SubIds : subs[i].pc = "ValidationFailed"
    /\ Len(validationErrors) >= 2
    /\ insertCalls = <<>>

\* C7: every run has at most one insert call, exactly one when its input
\* passed validation, and the number of insert calls equals the number of
\* runs whose input passed validation.
C7_OneInsertPerValidSubmit ==
    /\ \A i \in SubIds :
          Cardinality({ k \in DOMAIN insertCalls : insertCalls[k].sub = i })
             = IF i <= nsub /\ subs[i].valid THEN 1 ELSE 0
    /\ Len(insertCalls) = Cardinality({ i \in 1..nsub : subs[i].valid })
    /\ \A i \in 1..nsub : subs[i].valid <=> subs[i].pc # "ValidationFailed"

\* C7 witness: two runs passed validation, the first one's insert failed (one
\* by error value or by throw), and there are exactly two insert calls.
C7_Witness ==
    /\ nsub >= 2
    /\ subs[1].pc \in { "PersistFailed", "Unexpected" }
    /\ subs[2].valid
    /\ Len(insertCalls) = 2

\* C8: when insert and invoke both succeed, the commit step appends one lead
\* with the submitted values, sets the flag, and leaves the form fields
\* empty.
C8_Claim ==
    [][ \A i \in SubIds :
          (subs[i].pc = "Notifying" /\ subs'[i].pc # "Notifying"
              /\ subs[i].dbResult = "ok" /\ subs'[i].fnResult = "ok") =>
             /\ Len(sessionLeads') = Len(sessionLeads) + 1
             /\ SubSeq(sessionLeads', 1, Len(sessionLeads)) = sessionLeads
             /\ InvokeBody(sessionLeads'[Len(sessionLeads')]) = InvokeBody(subs[i].data)
             /\ submitted' = TRUE
             /\ formData' = EmptyForm ]_vars

\* C9: when the insert call throws, the step that handles it ends the run
\* without an invoke call, a lead, a write of the flag or a form reset, and
\* nothing escapes; such a run never invokes or adds a lead later.
C9_ThrowEndsWithoutCommit ==
    /\ [](\A i \in SubIds :
            subs[i].dbResult = "throw" =>
               /\ subs[i].pc = "Unexpected"
               /\ i \notin InvokedBy
               /\ i \notin LeadsBy
               /\ i \notin fnPending
               /\ i \notin uncaught)
    /\ [][ \A i \in SubIds :
             (subs[i].pc = "Persisting" /\ subs'[i].dbResult = "throw") =>
                /\ invokeCalls' = invokeCalls
                /\ insertCalls' = insertCalls
                /\ sessionLeads' = sessionLeads
                /\ submitted' = submitted
                /\ formData' = formData
                /\ uncaught' = uncaught ]_vars

\* C9 witness: a run ended on a thrown insert and the mounted form still
\* holds the values that were submitted.
C9_Witness ==
    \E i \in SubIds : \E c \in DOMAIN insertCalls :
       /\ subs[i].pc = "Unexpected"
       /\ subs[i].dbResult = "throw"
       /\ insertCalls[c].sub = i
       /\ mounted
       /\ formData = InvokeBody(insertCalls[c].row)

\* C10 as stated: the step in which a run halts on a persistence error ends
\* with the submitted flag false.
C10_Original ==
    [][ \A i \in SubIds :
          Moves(i, "Persisting", "PersistFailed") => submitted' = FALSE ]_vars

\* C10 amended: the step in which a run halts on a persistence error leaves
\* the submitted flag as it was (false unless a run committed since the last
\* mount).
C10_Amended ==
    [][ \A i \in SubIds :
          (subs[i].pc = "Persisting" /\ subs'[i].dbResult = "error") =>
             submitted' = submitted ]_vars

\* C10 witness: a run has halted on a persistence error and the flag is true.
C10_Witness ==
    \E i \in SubIds : subs[i].pc = "PersistFailed" /\ submitted

\* the insert call of run i
InsertCallOf(i) == insertCalls[CHOOSE c \in DOMAIN insertCalls : insertCalls[c].sub = i]

\* C11: every mount step ends with the submitted flag false, whatever the
\* runs are doing, and leaves the store as it is; the mount reset applied
\* to the state it produced changes nothing.
C11_MountResetsFlagOnly ==
    [][ (~mounted /\ mounted') =>
          /\ submitted' = FALSE
          /\ setSubmitted(FALSE) = submitted'
          /\ sessionLeads' = sessionLeads
          /\ leadOrigin' = leadOrigin ]_vars

\* C11 witness: the form was mounted again while a run of the previous
\* instance is in flight and after a lead was committed; the flag is false.
C11_Witness ==
    /\ mounted
    /\ ~submitted
    /\ Len(sessionLeads) >= 1
    /\ \E i \in SubIds : subs[i].pc \in { "Persisting", "Notifying" } /\ ~subs[i].alive

\* C12 as stated: every lead of the store equals the row of its run's insert
\* call in name, email, industry and submitted_at.
C12_Original ==
    \A k \in DOMAIN sessionLeads :
       \E c \in DOMAIN insertCalls :
          /\ insertCalls[c].sub = leadOrigin[k]
          /\ sessionLeads[k] = insertCalls[c].row

\* C12 amended: each committed run added exactly one lead; the lead equals the
\* row of the run's insert call in name, email and industry, and its
\* submitted_at is a second clock reading of the same run: the row's
\* instant or a later one.
C12_Amended ==
    /\ \A k \in DOMAIN sessionLeads :
          \E c \in DOMAIN insertCalls :
             /\ insertCalls[c].sub = leadOrigin[k]
             /\ InvokeBody(sessionLeads[k]) = InvokeBody(insertCalls[c].row)
             /\ insertCalls[c].row.submitted_at = FirstRead(leadOrigin[k])
             /\ sessionLeads[k].submitted_at \in SecondReads(leadOrigin[k])
    /\ \A i \in SubIds :
          Cardinality({ k \in DOMAIN leadOrigin : leadOrigin[k] = i })
             = IF subs[i].pc = "Committed" THEN 1 ELSE 0

\* C12 witness: the store holds a lead whose submitted_at is later than the
\* submitted_at of the row inserted for it.
C12_Witness ==
    \E k \in DOMAIN sessionLeads :
       /\ sessionLeads[k].submitted_at.later
       /\ InsertCallOf(leadOrigin[k]).row.submitted_at # sessionLeads[k].submitted_at

\* C13: the alert was raised for exactly the runs whose insert returned an
\* error value; a failed invoke call and a thrown insert are logged with
\* console.error and raise no alert.
C13_AlertOnlyOnPersistError ==
    /\ alerts = { i \in SubIds : subs[i].dbResult = "error" }
    /\ \A i \in SubIds :
          /\ subs[i].fnResult \in { "error", "throw" } =>
                (<<i, "email">> \in consoleErrors /\ i \notin alerts)
          /\ subs[i].dbResult = "throw" =>
                (<<i, "unexpected">> \in consoleErrors /\ i \notin alerts)
          /\ subs[i].dbResult = "error" => <<i, "db">> \in consoleErrors

\* C13 witness: one run raised the alert on a persistence error, another
\* committed after a failed invoke call without an alert.
C13_Witness ==
    \E i, j \in SubIds :
       /\ subs[i].pc = "PersistFailed" /\ i \in alerts
       /\ subs[j].pc = "Committed" /\ subs[j].fnResult \in { "error", "throw" }
       /\ j \notin alerts

C15_StoreAppendOnly ==
    [][ /\ IsPrefix(sessionLeads, sessionLeads')
        /\ Len(sessionLeads') <= Len(sessionLeads) + 1
        /\ \A i \in SubIds :
              Moves(i, "Notifying", "Committed")
                 => Len(sessionLeads') = Len(sessionLeads) + 1 ]_vars

\* C15 witness: two committed submissions with the same email are both in
\* the store.
C15_Witness ==
    /\ Len(sessionLeads) = 2
    /\ sessionLeads[1].email = sessionLeads[2].email
    /\ subs[1].pc = "Committed"
    /\ subs[2].pc = "Committed"

\* C16: every notification call and every lead of the store carries the
\* name, email and industry of the insert call of the same run.
C16_PayloadsAreSubmitTimeValues ==
    /\ \A c \in DOMAIN invokeCalls :
          /\ \E d \in DOMAIN insertCalls : insertCalls[d].sub = invokeCalls[c].sub
          /\ invokeCalls[c].body = InvokeBody(InsertCallOf(invokeCalls[c].sub).row)
    /\ \A k \in DOMAIN sessionLeads :
          /\ \E d \in DOMAIN insertCalls : insertCalls[d].sub = leadOrigin[k]
          /\ InvokeBody(sessionLeads[k]) = InvokeBody(InsertCallOf(leadOrigin[k]).row)

\* C16 witness: the notification call of a run is in flight, its instance is
\* still mounted, and the form no longer holds the values the run submitted.
C16_Witness ==
    \E i \in SubIds :
       /\ i \in fnPending
       /\ mounted
       /\ subs[i].alive
       /\ InvokeBody(formData) # InvokeBody(InsertCallOf(i).row)
       /\ \E c \in DOMAIN invokeCalls :
             invokeCalls[c].sub = i /\ invokeCalls[c].body # InvokeBody(formData)

\* the runs whose insert call returned success
OkRuns == { i \in SubIds : subs[i].dbResult = "ok" }

\* C17: the number of leads in the store and the number of notification
\* calls are each at most the number of insert calls that returned success,
\* and each run has at most one lead, and only after its insert succeeded.
C17_BoundedBySuccessfulInserts ==
    /\ Len(sessionLeads) <= Cardinality(OkRuns)
    /\ Len(invokeCalls) <= Cardinality(OkRuns)
    /\ Cardinality(OkRuns) <= Len(insertCalls)
    /\ \A i \in SubIds :
          /\ Cardinality({ k \in DOMAIN leadOrigin : leadOrigin[k] = i }) <= 1
          /\ Cardinality({ c \in DOMAIN invokeCalls : invokeCalls[c].sub = i }) <= 1
          /\ (i \in LeadsBy \/ i \in InvokedBy) => i \in OkRuns

\* C17 witness: two submissions overlap, the first one's notification call is
\* in flight while the second one's insert is.
C17_Witness ==
    /\ subs[1].pc = "Notifying"
    /\ subs[2].pc = "Persisting"
    /\ 1 \in fnPending
    /\ 2 \in dbPending
    /\ Len(invokeCalls) = 1

\* the outcomes a submit action can end in
TerminalPcs == { "ValidationFailed", "PersistFailed", "Unexpected", "Committed" }

\* C18: when every issued gateway call eventually returns or throws, every
\* submitted run eventually is in a terminal outcome and keeps that one
\* outcome for ever; a run whose insert returned success eventually is
\* Committed, whatever the invoke call's outcome.
C18_EverySubmitTerminates ==
    /\ \A i \in SubIds :
          (subs[i].pc = "Persisting") ~> (subs[i].pc \in TerminalPcs)
    /\ \A i \in SubIds :
          (subs[i].pc = "Notifying") ~> (subs[i].pc = "Committed")
    /\ [][ \A i \in SubIds :
              /\ subs[i].pc \in TerminalPcs => subs'[i].pc = subs[i].pc
              /\ (subs[i].pc = "Idle" /\ subs'[i].pc # "Idle")
                    => subs'[i].pc \in { "ValidationFailed", "Persisting" } ]_vars

\* C18 witness: one run reached Committed although its invoke call threw,
\* the other ended in the unexpected failure.
C18_Witness ==
    /\ subs[1].pc = "Committed"
    /\ subs[1].fnResult = "throw"
    /\ subs[2].pc = "Unexpected"
    /\ dbPending = {}
    /\ fnPending = {}

\* C19: whenever the submitted flag is true the store holds at least one
\* lead; the flag turns true only in a step that appends a lead, and no step
\* shortens the store.
C19_SubmittedImpliesLead ==
    /\ [](submitted => Len(sessionLeads) >= 1)
    /\ [][ /\ (~submitted /\ submitted') =>
                 Len(sessionLeads') = Len(sessionLeads) + 1
           /\ Len(sessionLeads') >= Len(sessionLeads) ]_vars

\* C19 witness: the flag is true, the store holds a lead, and the component
\* that set the flag has been unmounted.
C19_Witness ==
    /\ submitted
    /\ Len(sessionLeads) >= 1
    /\ ~mounted

\* C20: a submit step sets the error list to the validator's result for the
\* form; a step that edits field f leaves no error for f, keeps the errors of
\* the other fields in their order, and leaves the store, the flag, the runs
\* and the gateway calls unchanged.
C20_ErrorListUpdates ==
    [][ /\ (nsub' = nsub + 1) => validationErrors' = validateLeadForm(formData)
        /\ \A f \in Fields :
              ( /\ mounted /\ mounted'
                /\ nsub' = nsub
                /\ subs' = subs
                /\ formData'[f] # formData[f] )
                 => /\ ~HasFieldError(validationErrors', f)
                    /\ validationErrors' = FilterOut(validationErrors, f)
                    /\ \A g \in Fields \ { f } :
                          /\ formData'[g] = formData[g]
                          /\ getFieldError(validationErrors', g)
                                = getFieldError(validationErrors, g)
                    /\ UNCHANGED << sessionLeads, leadOrigin, submitted,
                                    gatewayVars, logVars >> ]_vars

\* C20 witness: while an insert call is in flight the form shows an email
\* error left by a later submit, after the edit of the name field removed
\* the name error that submit had produced.
C20_Witness ==
    /\ dbPending # {}
    /\ mounted
    /\ HasFieldError(validationErrors, "email")
    /\ ~HasFieldError(validationErrors, "name")
    /\ Trim(formData.name) = EmptyStr
    /\ formData.name # EmptyStr

====
